---- MODULE Spec2Model ----
(***************************************************************************)
(* Model of the HeartCoach API: the daily medicine-intake upsert           *)
(* (routers/api_v1/medicine.py, repositories/medicine_repo.py) over the    *)
(* relational schema of models/medicine.py, the OTP lifecycle of           *)
(* services/otp_service.py over the key-value TTL store, the sign-in of    *)
(* routers/api_v1/auth.py, and the water log of routers/api_v1/water.py.   *)
(*                                                                         *)
(* Every request runs in its own database session.  A handler is split at  *)
(* its awaited database statements: one action is one statement taking     *)
(* effect on the committed state (READ COMMITTED) together with the        *)
(* synchronous code that follows it up to the next awaited statement.      *)
(* A field of the request payload is bound by \E in the action where the   *)
(* handler first reads it; the payload is independent of the database, so  *)
(* this yields the same behaviours as binding the whole payload at once.   *)
(***************************************************************************)
EXTENDS Integers, FiniteSets, Sequences, TLC

\* ------------------------------------------------------------------ bounds
TimeStep == 9000       \* seconds by which one Tick advances time.time()
MaxTicks == 3          \* Ticks taken
MaxCalls == 3          \* calls of the OTP service
MaxAccepted == 2       \* accepted verifications recorded per stored secret
MaxClock == 2          \* transactions of mark_medicine_status that get a timestamp
MaxRaceClock == 3      \* the same, when every request names one schedule and today
MaxScheduleKeys == 4   \* primary keys drawn for medicine_schedules
MaxGoals == 2          \* rows inserted into water_goals
MaxLoggedMl == 3       \* millilitres a user logs between two resets
MaxIntakeKeys == 2     \* primary keys drawn for water_intake
WindowDay == 2         \* the date used as start_date / end_date of created medicines

\* Python's None for optional dates and ids (dates and ids are >= 1).
None == 0

Users == {"u1", "u2"}
NoUser == "anonymous"            \* request.state carries no user_id
Procs == {"r1", "r2"}            \* requests in flight at the same time
Dates == (WindowDay - 1)..(WindowDay + 1)   \* the day before, of and after the window
MedicineIds == {1, 2}                       \* medicines ever created
ScheduleIds == {1, 2, 3}                    \* schedules ever created
NoNote == "null"
Notes == {NoNote, "felt dizzy"}

\* IntakeStatus (models/medicine.py)
PENDING == "pending"
TAKEN == "taken"
MISSED == "missed"
DELAYED == "delayed"
IntakeStatus == {PENDING, TAKEN, MISSED, DELAYED}

\* OTP_EXPIRES_SECONDS of services/otp_service.py: the TTL of a stored secret
\* and the TOTP interval.
OTP_EXPIRES_SECONDS == 18000
Contacts == {"a@b.com", "+15550100"}
Secrets == {1, 2}                   \* the values pyotp.random_base32() draws
NoSecret == [secret |-> None, expires_at |-> None]
OtpIdle == [op |-> "none", pc |-> "idle", contact |-> "none", otp |-> None, resend |-> FALSE]
NotIssued == [op |-> "none", secret |-> None, otp |-> None, at |-> None,
              dispatch |-> "none", resent |-> None, superseded |-> None]
VerifyIdle == [pc |-> "idle", contact |-> "none", valid |-> FALSE, status |-> "none"]
SigninIdle == [pc |-> "idle", contact |-> "none", status |-> "none"]
WaterIdle == [pc |-> "idle", user_id |-> NoUser, intake_ml |-> None, intake |-> None,
              loaded_ml |-> None]
NoWaterResponse == [op |-> "none", user_id |-> NoUser, result |-> "none", goal_ml |-> None,
                    total_intake_ml |-> None, remaining_ml |-> None]

VARIABLES
    workload,       \* the requests clients send: the values their fields take
    keys,           \* the number of primary keys drawn so far, per table
    medicines,      \* table medicines: set of rows
    schedules,      \* table medicine_schedules: set of rows
    intakes,        \* table daily_medicine_intakes: set of rows
    today,          \* date.today()
    clock,          \* the database clock: now() of the latest transaction start
    req,            \* per request slot: the handler's position and locals
    response,       \* the HTTP response sent last, with ghosts of its request
    otp_store,      \* redis keys otp_secret:<contact>: the secret and its expiry
    time,           \* time.time(), in seconds
    otp_req,        \* the OTP call in flight: its position and locals
    otp_response,   \* the result the OTP service returned last
    accepted,       \* per contact: the codes verify accepted since the secret was stored
    issued,         \* per contact: the record of the latest generation of a secret
    verify_req,     \* the verify_otp request in flight: its position and locals
    users,          \* table users: the contacts that have a row
    tokens,         \* the subjects access tokens were issued for
    otp_calls,      \* the number of calls the OTP service has taken
    signin,         \* per request slot: a verify_otp request, its position and status
    water_goals,    \* table water_goals: set of rows
    water_intakes,  \* table water_intake: set of rows
    water_req,      \* per request slot: a log_water_intake request and its locals
    water_response, \* the response a water handler sent last
    water_logged,   \* per user: the amounts logged today since the last reset, summed
    water_keys      \* the number of primary keys drawn so far for water_intake

medVars == <<workload, keys, medicines, schedules, intakes, today, clock, req, response>>
otpVars == <<otp_store, time, otp_req, otp_response, accepted, issued, verify_req,
             users, tokens, otp_calls>>
authVars == <<signin>>
waterVars == <<water_goals, water_intakes, water_req, water_response, water_logged,
               water_keys>>
vars == <<medVars, otpVars, authVars, waterVars>>

\* A request slot with no handler running.  The fields up to overlapped are the
\* locals of mark_medicine_status: intake is the primary key of the row the
\* handler loaded, intake_status and intake_note the values the session loaded
\* with it; loaded belongs to get_medicines.
Idle ==
    [op |-> "none", pc |-> "idle", user_id |-> NoUser, medicine_id |-> None,
     start_date |-> None, end_date |-> None, schedule_id |-> None,
     time_of_day |-> None, intake_date |-> None, intake |-> None,
     intake_status |-> PENDING, intake_note |-> NoNote, now |-> None,
     overlapped |-> FALSE, loaded |-> {}]

\* A response: the handler and its HTTP result.  The other fields are ghosts of
\* the request that some results keep: its user and medicine id, its intake
\* date, the status and note it wrote, the note it replaced and the branch it
\* took, and the statuses get_medicines reported.
Finished(op, result) ==
    [op |-> op, result |-> result, user_id |-> NoUser, medicine_id |-> None,
     intake_date |-> None, status |-> PENDING, note |-> NoNote,
     prev_note |-> NoNote, branch |-> "none", report |-> {}]

\* The requests of a run of Spec: any caller, medicine id, schedule id and
\* intake date, in at most MaxClock transactions of mark_medicine_status.
AnyRequest ==
    [users |-> Users \cup {NoUser}, medicine_ids |-> MedicineIds,
     schedule_ids |-> ScheduleIds \cup {None}, dates |-> Dates \cup {None},
     transactions |-> MaxClock]

\* The requests of a run of SpecRace: u1 marks the first schedule of the first
\* medicine for today, in at most MaxRaceClock transactions.
OneSchedule ==
    [users |-> {"u1"}, medicine_ids |-> {1}, schedule_ids |-> {1}, dates |-> {None},
     transactions |-> MaxRaceClock]

\* The requests of a run of SpecCatalog: either user names the first medicine
\* or a schedule that exists at some time, and marks a dose for today.
CatalogRequest ==
    [users |-> Users, medicine_ids |-> {1},
     schedule_ids |-> {1, MaxScheduleKeys}, dates |-> {None},
     transactions |-> MaxClock]

\* The empty database, the empty store and no request in flight.
Started ==
    /\ keys = [medicines |-> 0, schedules |-> 0]
    /\ medicines = {}
    /\ schedules = {}
    /\ intakes = {}
    /\ today = WindowDay
    /\ clock = 0
    /\ req = [p \in Procs |-> Idle]
    /\ response = Finished("none", "none")
    /\ otp_store = [c \in Contacts |-> NoSecret]
    /\ time = 0
    /\ otp_req = OtpIdle
    /\ otp_response = [op |-> "none", contact |-> "none", otp |-> None, result |-> FALSE,
                       outcome |-> "none", error |-> "none"]
    /\ accepted = [c \in Contacts |-> <<>>]
    /\ issued = [c \in Contacts |-> NotIssued]
    /\ verify_req = VerifyIdle
    /\ users = {}
    /\ tokens = {}
    /\ otp_calls = 0
    /\ signin = [p \in Procs |-> SigninIdle]
    /\ water_goals = {}
    /\ water_intakes = {}
    /\ water_req = [p \in Procs |-> WaterIdle]
    /\ water_response = NoWaterResponse
    /\ water_logged = [u \in Users |-> 0]
    /\ water_keys = 0

Init ==
    /\ workload = AnyRequest
    /\ Started

InitCatalog ==
    /\ workload = CatalogRequest
    /\ Started

InitRace ==
    /\ workload = OneSchedule
    /\ Started

\* The dependency get_user_id (core/deps.py lines 46-63): the error it raises,
\* or "none" when request.state carries a user id.  The HTTPException 401 is
\* raised inside the try block, whose "except Exception" catches it and raises
\* HTTP 500 in its place.
get_user_id(u) ==
    IF u = NoUser THEN "InternalError" ELSE "none"

\* A new request takes the first slot that runs no handler (the slots are
\* interchangeable).
Running(q) == req[q].pc # "idle"
FreeSlot(p) ==
    /\ ~Running(p)
    /\ p = "r2" => Running("r1")

\* The handler of slot p sends its response and leaves the slot.
Respond(p, resp) ==
    /\ req' = [req EXCEPT ![p] = Idle]
    /\ response' = resp

\* ---------------------------------------------------------- create_medicine
\* The rows MedicineSchedule(medicine_id, user_id, time_of_day) of a payload's
\* schedules.  A primary key is a fresh uuid4; the number of keys drawn before
\* it names it here.
NewSchedules(mid, u, times) ==
    {[id |-> keys.schedules + i, medicine_id |-> mid, user_id |-> u,
      time_of_day |-> times[i]] : i \in 1..Len(times)}

\* POST /medicine: one transaction inserting the medicine and its schedules.
create_medicine_with_schedules(u, start, end, times) ==
    /\ keys.medicines < Cardinality(MedicineIds)
    /\ LET mid == keys.medicines + 1
       IN  /\ medicines' = medicines \cup
                 {[id |-> mid, user_id |-> u, start_date |-> start, end_date |-> end]}
           /\ schedules' = schedules \cup NewSchedules(mid, u, times)
           /\ keys' = [medicines |-> mid, schedules |-> keys.schedules + Len(times)]
    /\ UNCHANGED <<intakes, today, clock, req, response, workload, otpVars, authVars, waterVars>>

\* The k-th POST /medicine of a run: its caller and payload (MedicineCreate).
\* The first medicine belongs to u1, starts on WindowDay, never ends and has two
\* schedules; the second belongs to u2, has no start date, ends on WindowDay and
\* has one schedule.
MedicinePayload(k) ==
    [user_id |-> IF k % 2 = 1 THEN "u1" ELSE "u2",
     start_date |-> IF k % 2 = 1 THEN WindowDay ELSE None,
     end_date |-> IF k % 2 = 1 THEN None ELSE WindowDay,
     schedules |-> IF k % 2 = 1 THEN <<8, 20>> ELSE <<8>>]

CreateMedicine ==
    LET payload == MedicinePayload(keys.medicines + 1)
    IN  create_medicine_with_schedules(payload.user_id, payload.start_date,
                                       payload.end_date, payload.schedules)

\* ------------------------------------------------------ mark_medicine_status
\* select(Medicine).where(id == medicine_id, user_id == user_id)
SelectMedicine(u, m) ==
    {x \in medicines : x.id = m /\ x.user_id = u}

\* Mutant: the schedule is looked up by its primary key alone.
SelectSchedule_ById(u, m, sid) ==
    {s \in schedules : s.id = sid}

\* select(MedicineSchedule).where(id == schedule_id, user_id == user_id,
\*                                medicine_id == medicine.id)
SelectSchedule(u, m, sid) ==
    {s \in schedules : s.id = sid /\ s.user_id = u /\ s.medicine_id = m}

\* The row db.add(intake) inserts (lines 251-260).  Its primary key is a fresh
\* uuid4; the timestamp of the inserting transaction names it here, which is
\* unique because a transaction inserts at most one row.
NewIntake(r, status, note) ==
    [id |-> r.now, user_id |-> r.user_id, schedule_id |-> r.schedule_id,
     intake_date |-> r.intake_date, status |-> status,
     status_changed_at |-> r.now, scheduled_time |-> r.time_of_day, note |-> note]

\* Mutant: the timestamp is written only when the status changes.
UpdatedIntake_StampOnChange(row, r, status, note) ==
    [row EXCEPT !.status = IF status = r.intake_status THEN @ ELSE status,
                !.status_changed_at = IF status = r.intake_status THEN @ ELSE r.now,
                !.note = IF note = r.intake_note THEN @ ELSE note]

\* Mutant: the update takes the schedule's time_of_day again.
UpdatedIntake_Resnapshot(row, r, status, note) ==
    [row EXCEPT !.status = IF status = r.intake_status THEN @ ELSE status,
                !.status_changed_at = r.now,
                !.scheduled_time = r.time_of_day,
                !.note = IF note = r.intake_note THEN @ ELSE note]

\* The stored row after the UPDATE that db.commit() flushes for the assignments
\* of lines 263-265.  The session writes the columns whose value differs from
\* the one it loaded, so status and note are written only when the payload
\* differs from the loaded row; status_changed_at = func.now() is an SQL
\* expression and is always written.
UpdatedIntake(row, r, status, note) ==
    [row EXCEPT !.status = IF status = r.intake_status THEN @ ELSE status,
                !.status_changed_at = r.now,
                !.note = IF note = r.intake_note THEN @ ELSE note]

\* select(DailyMedicineIntake).where(user_id, schedule_id, intake_date)
SelectIntake(u, sid, d) ==
    {r \in intakes : r.user_id = u /\ r.schedule_id = sid /\ r.intake_date = d}

\* Mutant: the start date itself is refused.
WindowError_Exclusive(start, end, d) ==
    IF start # None /\ d <= start THEN "BeforeStart"
    ELSE IF end # None /\ d > end THEN "AfterEnd"
    ELSE "none"

\* The start/end window of the medicine: the HTTP 400 it raises, or "none".
WindowError(start, end, d) ==
    IF start # None /\ d < start THEN "BeforeStart"
    ELSE IF end # None /\ d > end THEN "AfterEnd"
    ELSE "none"

\* Mutant: the table has no uniqueness constraint.
NoUniqueConstraint(sid, d) ==
    FALSE

\* UniqueConstraint("schedule_id", "intake_date"): an INSERT of (sid, d) is refused.
UniqueViolation(sid, d) ==
    \E r \in intakes : r.schedule_id = sid /\ r.intake_date = d

\* ForeignKey("medicine_schedules.id"): an INSERT naming a schedule that has no
\* row is refused.
ForeignKeyViolation(sid) ==
    \A x \in schedules : x.id # sid

\* A mark_medicine_status handler holding an open transaction.
InFlight(q) ==
    req[q].op = "mark_medicine_status"
        /\ req[q].pc \in {"select_schedule", "select_intake", "commit"}

\* A handler that ended before its second statement; the user and medicine id of
\* the request stay in the response as ghosts.
Rejected(u, m, result) ==
    [Finished("mark_medicine_status", result) EXCEPT !.user_id = u, !.medicine_id = m]

\* Lines 197-214: the user id of the request, the medicine of this user, and the
\* presence of payload.schedule_id.  The first statement opens the transaction,
\* whose start time is what now() yields until it commits.
MarkStatus_SelectMedicine(p) ==
    /\ FreeSlot(p)
    /\ \E u \in workload.users, m \in workload.medicine_ids,
          sid \in workload.schedule_ids :
        IF u = NoUser
        THEN Respond(p, Rejected(u, m, "Unauthorized")) /\ UNCHANGED clock
        ELSE IF SelectMedicine(u, m) = {}
        THEN Respond(p, Rejected(u, m, "MedicineNotFound")) /\ UNCHANGED clock
        ELSE IF sid = None
        THEN Respond(p, Rejected(u, m, "ScheduleIdRequired")) /\ UNCHANGED clock
        ELSE /\ clock < workload.transactions
             /\ clock' = clock + 1
             /\ LET medicine == CHOOSE x \in SelectMedicine(u, m) : TRUE
                IN  req' = [req EXCEPT ![p] =
                        [Idle EXCEPT !.op = "mark_medicine_status",
                                     !.pc = "select_schedule",
                                     !.user_id = u,
                                     !.medicine_id = medicine.id,
                                     !.start_date = medicine.start_date,
                                     !.end_date = medicine.end_date,
                                     !.schedule_id = sid,
                                     !.now = clock + 1]]
             /\ UNCHANGED response
    /\ UNCHANGED <<medicines, schedules, intakes, today, workload, keys, otpVars, authVars, waterVars>>

\* Mutant: the row is inserted as soon as the schedule is found, ahead of the
\* window check.
MarkStatus_SelectSchedule_UpsertFirst(p) ==
    /\ req[p].op = "mark_medicine_status"
    /\ req[p].pc = "select_schedule"
    /\ LET r == req[p]
           found == SelectSchedule(r.user_id, r.medicine_id, r.schedule_id)
       IN  IF found = {}
           THEN Respond(p, Finished(r.op, "ScheduleNotFound")) /\ UNCHANGED intakes
           ELSE \E d \in workload.dates :
                LET intake_date == IF d = None THEN today ELSE d
                    err == WindowError(r.start_date, r.end_date, intake_date)
                    schedule == CHOOSE s \in found : TRUE
                    next == [r EXCEPT !.pc = "select_intake",
                                      !.time_of_day = schedule.time_of_day,
                                      !.intake_date = intake_date]
                IN  /\ intakes' = IF UniqueViolation(r.schedule_id, intake_date)
                                  THEN intakes
                                  ELSE intakes \cup {NewIntake(next, PENDING, NoNote)}
                    /\ IF err # "none"
                       THEN Respond(p, [Finished(r.op, err) EXCEPT !.intake_date = intake_date])
                       ELSE req' = [req EXCEPT ![p] = next] /\ UNCHANGED response
    /\ UNCHANGED <<medicines, schedules, today, clock, workload, keys, otpVars, authVars, waterVars>>

\* Lines 216-235: the schedule of this medicine and user, the intake date
\* (payload.intake_date or date.today()) and the medicine's window.
MarkStatus_SelectSchedule(p) ==
    /\ req[p].op = "mark_medicine_status"
    /\ req[p].pc = "select_schedule"
    /\ LET r == req[p]
           found == SelectSchedule(r.user_id, r.medicine_id, r.schedule_id)
       IN  IF found = {}
           THEN Respond(p, Finished(r.op, "ScheduleNotFound"))
           ELSE \E d \in workload.dates :
                LET intake_date == IF d = None THEN today ELSE d
                    err == WindowError(r.start_date, r.end_date, intake_date)
                    schedule == CHOOSE s \in found : TRUE
                IN  IF err # "none"
                    THEN Respond(p, [Finished(r.op, err) EXCEPT !.intake_date = intake_date])
                    ELSE /\ req' = [req EXCEPT ![p] =
                                [r EXCEPT !.pc = "select_intake",
                                          !.time_of_day = schedule.time_of_day,
                                          !.intake_date = intake_date]]
                         /\ UNCHANGED response
    /\ UNCHANGED <<medicines, schedules, intakes, today, clock, workload, keys, otpVars, authVars, waterVars>>

\* Lines 238-245: the existing row of (user, schedule, intake_date);
\* scalar_one_or_none() raises when more than one row matches.
MarkStatus_SelectIntake(p) ==
    /\ req[p].op = "mark_medicine_status"
    /\ req[p].pc = "select_intake"
    /\ LET r == req[p]
           found == SelectIntake(r.user_id, r.schedule_id, r.intake_date)
       IN  IF Cardinality(found) > 1
           THEN Respond(p, Finished(r.op, "MultipleResultsFound"))
           ELSE /\ req' = [req EXCEPT ![p] =
                       [r EXCEPT !.pc = "commit",
                                 !.intake = IF found = {} THEN None
                                            ELSE (CHOOSE x \in found : TRUE).id,
                                 !.intake_status =
                                     IF found = {} THEN PENDING
                                     ELSE (CHOOSE x \in found : TRUE).status,
                                 !.intake_note =
                                     IF found = {} THEN NoNote
                                     ELSE (CHOOSE x \in found : TRUE).note]]
                /\ UNCHANGED response
    /\ UNCHANGED <<medicines, schedules, intakes, today, clock, workload, keys, otpVars, authVars, waterVars>>

\* The handler of slot p has committed and returns.  Every other open
\* mark_medicine_status transaction has now seen another request commit since
\* it began (ghost).
RespondCommitted(p, resp) ==
    /\ req' = [q \in Procs |->
                IF q = p THEN Idle
                ELSE IF InFlight(q) THEN [req[q] EXCEPT !.overlapped = TRUE]
                ELSE req[q]]
    /\ response' = resp

\* The response of a handler that has committed, with its ghosts: the status and
\* note of its payload, the note it replaced, and the branch it took: "insert",
\* "update", or "repeat" for an update that wrote the status the row already had
\* while no other request committed since this one began.
Committed(r, status, note, prev_note, branch) ==
    [Finished(r.op, "OK") EXCEPT !.status = status, !.note = note,
                                 !.prev_note = prev_note, !.branch = branch]

\* Lines 247-270: build or modify the row, then db.commit() flushes the INSERT or
\* the UPDATE and commits.  A refused statement rolls the transaction back and
\* the exception leaves the handler (HTTP 500).  db.refresh(intake) re-reads the
\* committed row by primary key for the response body, which is not modelled.
MarkStatus_Commit(p) ==
    /\ req[p].op = "mark_medicine_status"
    /\ req[p].pc = "commit"
    /\ \E status \in IntakeStatus, note \in Notes :
        LET r == req[p] IN
        IF r.intake = None
        THEN IF UniqueViolation(r.schedule_id, r.intake_date)
                    \/ ForeignKeyViolation(r.schedule_id)
             THEN /\ Respond(p, Finished(r.op, "IntegrityError"))
                  /\ UNCHANGED intakes
             ELSE /\ intakes' = intakes \cup {NewIntake(r, status, note)}
                  /\ RespondCommitted(p, Committed(r, status, note, NoNote, "insert"))
        ELSE IF \A x \in intakes : x.id # r.intake
             THEN /\ Respond(p, Finished(r.op, "StaleDataError"))
                  /\ UNCHANGED intakes
             ELSE LET row == CHOOSE x \in intakes : x.id = r.intake
                  IN  /\ intakes' = (intakes \ {row}) \cup {UpdatedIntake(row, r, status, note)}
                      /\ RespondCommitted(p,
                            Committed(r, status, note, row.note,
                                IF row.status = status /\ ~r.overlapped
                                THEN "repeat" ELSE "update"))
    /\ UNCHANGED <<medicines, schedules, today, clock, workload, keys, otpVars, authVars, waterVars>>

\* ------------------------------- update_medicine, update_schedule, delete
\* The response of a handler of the catalogue, with the user and the medicine
\* or schedule id of its request and the branch it took.
CatalogResponse(op, u, id, result, branch) ==
    [Finished(op, result) EXCEPT !.user_id = u, !.medicine_id = id, !.branch = branch]

\* The bodies of PUT /medicine/{id} (MedicineUpdate): schedules absent, an
\* empty list, or one schedule at noon.  No other field is set.
MedicineUpdates ==
    {[given |-> FALSE, schedules |-> <<>>],
     [given |-> TRUE, schedules |-> <<>>],
     [given |-> TRUE, schedules |-> <<12>>]}

\* "if payload.schedules:" (medicine_service.py line 33): None and the empty
\* list are both false.
ReplacesSchedules(payload) ==
    payload.given /\ Len(payload.schedules) > 0

\* The ids of the schedules of medicine m.
SchedulesOfMedicine(m) ==
    {x.id : x \in {y \in schedules : y.medicine_id = m}}

\* Mutant: deleting a schedule leaves its rows of daily_medicine_intakes.
CascadeIntakes_Keep(gone) ==
    intakes

\* ForeignKey("medicine_schedules.id", ondelete="CASCADE"): the rows that remain
\* once the schedules with the ids in gone are deleted.
CascadeIntakes(gone) ==
    {x \in intakes : x.schedule_id \notin gone}

\* delete(MedicineSchedule).where(MedicineSchedule.medicine_id == medicine_id)
delete_schedules(m) ==
    {x \in schedules : x.medicine_id # m}

\* What update_medicine of the router does with the HTTPException 404 of the
\* service (router lines 97-102): "except Exception" catches it and raises
\* HTTP 500.
UpdateMedicine_Error(err) ==
    "InternalError"

\* PUT /medicine/{medicine_id}: router lines 87-102 with
\* MedicineService.update_medicine (lines 22-39).  One transaction; the
\* response body is not modelled.
UpdateMedicine ==
    /\ \E u \in workload.users, m \in workload.medicine_ids, payload \in MedicineUpdates :
        IF get_user_id(u) # "none"
        THEN /\ response' = CatalogResponse("update_medicine", u, m, get_user_id(u), "none")
             /\ UNCHANGED <<keys, schedules, intakes>>
        ELSE IF SelectMedicine(u, m) = {}
        THEN /\ response' = CatalogResponse("update_medicine", u, m,
                                UpdateMedicine_Error("MedicineNotFound"), "none")
             /\ UNCHANGED <<keys, schedules, intakes>>
        ELSE IF ReplacesSchedules(payload)
        THEN /\ keys.schedules + Len(payload.schedules) <= MaxScheduleKeys
             /\ schedules' = delete_schedules(m) \cup NewSchedules(m, u, payload.schedules)
             /\ intakes' = CascadeIntakes(SchedulesOfMedicine(m))
             /\ keys' = [keys EXCEPT !.schedules = @ + Len(payload.schedules)]
             /\ response' = CatalogResponse("update_medicine", u, m, "OK", "replace")
        ELSE /\ response' = CatalogResponse("update_medicine", u, m, "OK", "keep")
             /\ UNCHANGED <<keys, schedules, intakes>>
    /\ UNCHANGED <<medicines, today, clock, req, workload, otpVars, authVars, waterVars>>

\* select(MedicineSchedule).where(id == schedule_id, user_id == user_id)
get_medicine_schedule(u, sid) ==
    {x \in schedules : x.id = sid /\ x.user_id = u}

\* The schedule after update_existing_schedule has set the fields of the
\* payload (medicine_repo.py lines 313-319); time_of_day is required.
update_existing_schedule(schedule, time_of_day) ==
    [schedule EXCEPT !.time_of_day = time_of_day]

\* PUT /medicine/schedule/{schedule_id}: router lines 156-179 with
\* MedicineService.update_medicine_schedule (lines 41-63).  The 404 of the
\* service is re-raised as it is.
UpdateSchedule ==
    /\ \E u \in workload.users, sid \in workload.schedule_ids, time_of_day \in {8, 12} :
        IF get_user_id(u) # "none"
        THEN /\ response' = CatalogResponse("update_schedule", u, sid, get_user_id(u), "none")
             /\ UNCHANGED schedules
        ELSE IF get_medicine_schedule(u, sid) = {}
        THEN /\ response' = CatalogResponse("update_schedule", u, sid,
                                            "ScheduleNotFound", "none")
             /\ UNCHANGED schedules
        ELSE LET schedule == CHOOSE x \in get_medicine_schedule(u, sid) : TRUE
             IN  /\ schedules' = (schedules \ {schedule})
                        \cup {update_existing_schedule(schedule, time_of_day)}
                 /\ response' = CatalogResponse("update_schedule", u, sid, "OK", "update")
    /\ UNCHANGED <<keys, medicines, intakes, today, clock, req, workload, otpVars, authVars, waterVars>>

\* DELETE /medicine/{medicine_id} (router lines 105-119): the handler reads
\* request.state.user_id and does not check it; db.delete(medicine) deletes the
\* medicine, its schedules and their rows (cascade="all, delete-orphan").
DeleteMedicine ==
    /\ \E u \in workload.users, m \in workload.medicine_ids :
        IF SelectMedicine(u, m) = {}
        THEN /\ response' = CatalogResponse("delete_medicine", u, m,
                                            "MedicineNotFound", "none")
             /\ UNCHANGED <<medicines, schedules, intakes>>
        ELSE /\ medicines' = medicines \ SelectMedicine(u, m)
             /\ schedules' = delete_schedules(m)
             /\ intakes' = CascadeIntakes(SchedulesOfMedicine(m))
             /\ response' = CatalogResponse("delete_medicine", u, m, "OK", "delete")
    /\ UNCHANGED <<keys, today, clock, req, workload, otpVars, authVars, waterVars>>

\* ------------------------------------------------------------- get_medicines
\* select(Medicine).options(selectinload(Medicine.schedules)).where(user_id):
\* the ids of the schedules of the user's medicines.
LoadSchedules(u) ==
    {s.id : s \in {x \in schedules :
                     \E m \in medicines : m.user_id = u /\ x.medicine_id = m.id}}

\* Mutant: the rows of every date are loaded.
LoadIntakes_AnyDate(u, ids, d) ==
    {i \in intakes : i.user_id = u /\ i.schedule_id \in ids}

\* select(DailyMedicineIntake).where(user_id, schedule_id.in_(ids), intake_date)
LoadIntakes(u, ids, d) ==
    {i \in intakes : i.user_id = u /\ i.schedule_id \in ids /\ i.intake_date = d}

\* Lines 68-76: the status attached to schedule sid, from the rows loaded.
AttachedStatus(found, sid) ==
    IF \E i \in found : i.schedule_id = sid
    THEN (CHOOSE i \in found : i.schedule_id = sid).status
    ELSE PENDING

\* Lines 35-54: the medicines of the user with their schedules (selectinload
\* reads both tables; no request changes either of them once created).  The
\* handler returns at once when there is no medicine or no schedule.
GetMedicines_LoadMedicines(p) ==
    /\ FreeSlot(p)
    /\ \E u \in workload.users :
        LET ids == LoadSchedules(u) IN
        IF get_user_id(u) # "none"
        THEN Respond(p, [Finished("get_medicines", get_user_id(u)) EXCEPT !.user_id = u])
        ELSE IF ids = {}
        THEN Respond(p, [Finished("get_medicines", "OK") EXCEPT !.user_id = u])
        ELSE /\ req' = [req EXCEPT ![p] =
                    [Idle EXCEPT !.op = "get_medicines", !.pc = "load_intakes",
                                 !.user_id = u, !.loaded = ids]]
             /\ UNCHANGED response
    /\ UNCHANGED <<medicines, schedules, intakes, today, clock, workload, keys, otpVars, authVars, waterVars>>

\* Mutant: a PENDING row is stored for every loaded schedule that has no row today.
GetMedicines_LoadIntakes_Materialise(p) ==
    /\ req[p].op = "get_medicines"
    /\ req[p].pc = "load_intakes"
    /\ LET r == req[p]
           found == LoadIntakes(r.user_id, r.loaded, today)
       IN  /\ Respond(p, [Finished(r.op, "OK") EXCEPT
                         !.user_id = r.user_id,
                         !.report = {[schedule_id |-> sid,
                                      status |-> AttachedStatus(found, sid)] :
                                     sid \in r.loaded}])
           /\ intakes' = intakes \cup
                {[id |-> 100 + sid, user_id |-> r.user_id, schedule_id |-> sid,
                  intake_date |-> today, status |-> PENDING,
                  status_changed_at |-> clock, scheduled_time |-> None,
                  note |-> NoNote] :
                 sid \in {x \in r.loaded : ~UniqueViolation(x, today)}}
    /\ UNCHANGED <<medicines, schedules, today, clock, workload, keys, otpVars, authVars, waterVars>>

\* Lines 57-78: today's rows of the loaded schedules, and the status attached to
\* each schedule.
GetMedicines_LoadIntakes(p) ==
    /\ req[p].op = "get_medicines"
    /\ req[p].pc = "load_intakes"
    /\ LET r == req[p]
           found == LoadIntakes(r.user_id, r.loaded, today)
       IN  Respond(p, [Finished(r.op, "OK") EXCEPT
                         !.user_id = r.user_id,
                         !.report = {[schedule_id |-> sid,
                                      status |-> AttachedStatus(found, sid)] :
                                     sid \in r.loaded}])
    /\ UNCHANGED <<medicines, schedules, intakes, today, clock, workload, keys, otpVars, authVars, waterVars>>

\* ------------------------------------------------------------- OTP service
\* pyotp.TOTP(secret, interval=OTP_EXPIRES_SECONDS).at(t): the code is a digest
\* of the secret and of the time bucket t // interval, cut to decimal digits.
TOTP(secret, t) ==
    (secret * 100 + 37 * (t \div OTP_EXPIRES_SECONDS)) % 1000

\* The codes a caller submits: every code the service can derive, and one it cannot.
SubmittedCodes ==
    {TOTP(s, k * TimeStep) : s \in Secrets, k \in 0..MaxTicks} \cup {999}

\* The operations of OTPService that call redis.
OtpOps ==
    {"generate_and_send", "fetch_and_send", "verify"}

\* redis.get("otp_secret:<contact>"): the stored secret, None when there is none.
redis_get(c) ==
    otp_store[c].secret

\* Mutant: SET NX, which keeps the value of a key that exists.
redis_setnx(c, secret) ==
    IF otp_store[c].secret # None THEN otp_store
    ELSE [otp_store EXCEPT ![c] = [secret |-> secret,
                                   expires_at |-> time + OTP_EXPIRES_SECONDS]]

\* redis.setex("otp_secret:<contact>", OTP_EXPIRES_SECONDS, secret)
redis_setex(c, secret) ==
    [otp_store EXCEPT ![c] = [secret |-> secret,
                              expires_at |-> time + OTP_EXPIRES_SECONDS]]

\* Mutant: the secret is a constant.
fixed_base32(c) ==
    {1}

\* pyotp.random_base32(): 160 random bits, so a draw differs from the secret
\* drawn before it for the contact.
random_base32(c) ==
    Secrets \ {issued[c].secret}

\* The record of a generation: the _generate_secret_and_otp call of op stored
\* secret for the contact at time and derived otp from it.
Generation(op, secret, issued_secret) ==
    [op |-> op, secret |-> secret, otp |-> TOTP(secret, time), at |-> time,
     dispatch |-> "pending", resent |-> None, superseded |-> issued_secret]

\* generate_and_send up to its await of _send (lines 153-157, 133-141): a fresh
\* secret, the code derived from it now, and the secret stored with its TTL.
GenerateAndSend_Store(c) ==
    /\ otp_req.pc = "idle"
    /\ otp_calls < MaxCalls
    /\ otp_calls' = otp_calls + 1
    /\ \E secret \in random_base32(c) :
        /\ otp_store' = redis_setex(c, secret)
        /\ otp_req' = [op |-> "generate_and_send", pc |-> "send", contact |-> c,
                       otp |-> TOTP(secret, time), resend |-> FALSE]
        /\ issued' = [issued EXCEPT ![c] = Generation("generate_and_send", secret,
                                                        issued[c].secret)]
    /\ accepted' = [accepted EXCEPT ![c] = <<>>]
    /\ UNCHANGED <<time, otp_response, verify_req, users, tokens, medVars, authVars, waterVars>>

\* fetch_and_send up to its await of _send (lines 171-183): the code of the
\* stored secret when there is one, otherwise a new secret as above.
FetchAndSend_Get(c) ==
    /\ otp_req.pc = "idle"
    /\ otp_calls < MaxCalls
    /\ otp_calls' = otp_calls + 1
    /\ LET secret == redis_get(c)
       IN  IF secret # None
           THEN /\ otp_req' = [op |-> "fetch_and_send", pc |-> "send", contact |-> c,
                               otp |-> TOTP(secret, time), resend |-> TRUE]
                /\ UNCHANGED <<otp_store, accepted, issued>>
           ELSE \E new \in random_base32(c) :
                /\ otp_store' = redis_setex(c, new)
                /\ otp_req' = [op |-> "fetch_and_send", pc |-> "send", contact |-> c,
                               otp |-> TOTP(new, time), resend |-> TRUE]
                /\ issued' = [issued EXCEPT ![c] = Generation("fetch_and_send", new,
                                                        issued[c].secret)]
                /\ accepted' = [accepted EXCEPT ![c] = <<>>]
    /\ UNCHANGED <<time, otp_response, verify_req, users, tokens, medVars, authVars, waterVars>>

\* What the call in flight leaves in the record of the contact's generation:
\* the outcome of its own dispatch when it stored the secret, the code it
\* resent when it found one.
Dispatched(sent) ==
    LET c == otp_req.contact
        own == issued[c].dispatch = "pending"
    IN  [issued EXCEPT
           ![c].dispatch = IF own THEN (IF sent THEN "sent" ELSE "failed") ELSE @,
           ![c].resent = IF ~own /\ sent THEN otp_req.otp ELSE @]

\* Mutant: the caller reports success whatever the channel did.
SendResult_Always(outcome) ==
    TRUE

\* The value _send returns (lines 110-119): the channel's result, False when
\* the channel raised.
SendResult(outcome) ==
    outcome = "sent"

\* Mutant: a failed dispatch deletes the secret of the contact.
AfterSend_Rollback(sent) ==
    IF sent THEN otp_store
    ELSE [otp_store EXCEPT ![otp_req.contact] = NoSecret]

\* The store after _send has returned: generate_and_send and fetch_and_send
\* return the result and leave the store alone (lines 157-165, 183).
AfterSend(sent) ==
    otp_store

\* _send (lines 78-119) and the return of its caller: the channel delivers,
\* reports failure, or raises.
Send ==
    /\ otp_req.pc = "send"
    /\ \E outcome \in {"sent", "failed", "raised"} :
        /\ otp_response' = [op |-> otp_req.op, contact |-> otp_req.contact,
                            otp |-> otp_req.otp, result |-> SendResult(outcome),
                            outcome |-> outcome, error |-> "none"]
        /\ issued' = Dispatched(outcome = "sent")
        /\ otp_store' = AfterSend(outcome = "sent")
    /\ otp_req' = OtpIdle
    /\ UNCHANGED <<time, accepted, verify_req, users, tokens, otp_calls, medVars, authVars, waterVars>>

\* Mutant: a missing secret lets the code through.
verify_unguarded(secret, otp, t) ==
    IF secret = None THEN TRUE ELSE TOTP(secret, t) = otp

\* What verify returns (lines 189-197): False without a secret, otherwise
\* totp.verify(otp), which compares otp with the code of the current bucket.
verify_result(secret, otp, t) ==
    IF secret = None THEN FALSE ELSE TOTP(secret, t) = otp

\* Mutant: the handler goes on whatever verify returned.
VerifyOtp_NeverRejects(valid) ==
    FALSE

\* verify_otp lines 60-65: "if not valid" raises HTTP 400.
VerifyOtp_Rejects(valid) ==
    valid # TRUE

\* verify_otp up to its await of get_or_create_by_contact (auth.py lines 54-67)
\* with OTPService.verify (otp_service.py lines 185-197).  The store is only read.
Verify(c, otp) ==
    /\ verify_req.pc = "idle"
    /\ otp_calls < MaxCalls
    /\ otp_calls' = otp_calls + 1
    /\ Len(accepted[c]) < MaxAccepted
    /\ LET secret == redis_get(c)
           result == verify_result(secret, otp, time)
       IN  /\ otp_response' = [op |-> "verify", contact |-> c, otp |-> otp,
                               result |-> result, outcome |-> "none",
                               error |-> "none"]
           /\ accepted' = IF result = TRUE
                          THEN [accepted EXCEPT ![c] = Append(@, otp)]
                          ELSE accepted
           /\ verify_req' = IF VerifyOtp_Rejects(result)
                            THEN [VerifyIdle EXCEPT !.status = "400"]
                            ELSE [pc |-> "get_or_create", contact |-> c,
                                  valid |-> result, status |-> "none"]
    /\ UNCHANGED <<otp_store, time, otp_req, issued, users, tokens, medVars, authVars, waterVars>>

\* verify_otp lines 69-81: the user of the contact is fetched or created
\* (user_repo.py lines 99-143) and an access token is issued for it.
VerifyOtp_IssueToken ==
    /\ verify_req.pc = "get_or_create"
    /\ users' = users \cup {verify_req.contact}
    /\ tokens' = tokens \cup {verify_req.contact}
    /\ verify_req' = [VerifyIdle EXCEPT !.status = "200"]
    /\ UNCHANGED <<otp_store, time, otp_req, otp_response, accepted, issued,
                   otp_calls, medVars, authVars, waterVars>>

\* What the caller of op gets when a call to redis raises: generate_and_send
\* catches every exception and returns False (lines 153-165); fetch_and_send
\* and verify have no handler, so the exception reaches the caller (lines
\* 171-183, 189).
StoreFailure(op) ==
    IF op = "generate_and_send"
    THEN [result |-> FALSE, error |-> "none"]
    ELSE [result |-> FALSE, error |-> "StoreUnavailable"]

\* A call of op for contact c during which redis is unavailable: nothing is
\* stored and nothing is dispatched.
StoreFails(op, c) ==
    /\ otp_req.pc = "idle"
    /\ verify_req.pc = "idle"
    /\ otp_response' = [op |-> op, contact |-> c, otp |-> None,
                        result |-> StoreFailure(op).result,
                        outcome |-> "store_unavailable",
                        error |-> StoreFailure(op).error]
    /\ UNCHANGED <<otp_store, time, otp_req, accepted, issued, verify_req, users,
                   tokens, otp_calls, medVars, authVars, waterVars>>

\* --------------------------------------------- verify_otp, two at a time
\* unique=True on users.email and users.phone_number (models/user.py lines
\* 34-35): an INSERT for a contact that has a row is refused.
UniqueContactViolation(c) ==
    c \in users

\* verify_otp up to its await of get_or_create_by_contact (auth.py lines
\* 54-67), in request slot p.
Signin_Verify(p, c, otp) ==
    /\ signin[p].pc = "idle"
    /\ LET valid == verify_result(redis_get(c), otp, time)
       IN  signin' = [signin EXCEPT ![p] =
                        IF VerifyOtp_Rejects(valid)
                        THEN [SigninIdle EXCEPT !.status = "400"]
                        ELSE [pc |-> "select", contact |-> c, status |-> "none"]]
    /\ UNCHANGED <<otpVars, medVars, waterVars>>

\* get_or_create_by_contact up to its await of create (user_repo.py lines
\* 117-137): get_by_email or get_by_phone.  An existing user is returned and
\* verify_otp issues its token (auth.py lines 72-81).
GetOrCreate_Select(p) ==
    /\ signin[p].pc = "select"
    /\ IF signin[p].contact \in users
       THEN /\ tokens' = tokens \cup {signin[p].contact}
            /\ signin' = [signin EXCEPT ![p] = [SigninIdle EXCEPT !.status = "200"]]
       ELSE /\ signin' = [signin EXCEPT ![p].pc = "create"]
            /\ UNCHANGED tokens
    /\ UNCHANGED <<otp_store, time, otp_req, otp_response, accepted, issued,
                   verify_req, users, otp_calls, medVars, waterVars>>

\* UserRepository.create (user_repo.py lines 74-78): the INSERT and its commit.
\* A refused INSERT raises IntegrityError, which no caller handles before the
\* "except Exception" of verify_otp turns it into HTTP 500 (auth.py lines
\* 85-91); otherwise the token of the new user is issued.
GetOrCreate_Create(p) ==
    /\ signin[p].pc = "create"
    /\ IF UniqueContactViolation(signin[p].contact)
       THEN /\ signin' = [signin EXCEPT ![p] = [SigninIdle EXCEPT !.status = "500"]]
            /\ UNCHANGED <<users, tokens>>
       ELSE /\ users' = users \cup {signin[p].contact}
            /\ tokens' = tokens \cup {signin[p].contact}
            /\ signin' = [signin EXCEPT ![p] = [SigninIdle EXCEPT !.status = "200"]]
    /\ UNCHANGED <<otp_store, time, otp_req, otp_response, accepted, issued,
                   verify_req, otp_calls, medVars, waterVars>>

\* Mutant: keys never expire.
Tick_NoExpiry ==
    /\ time < MaxTicks * TimeStep
    /\ time' = time + TimeStep
    /\ UNCHANGED <<otp_store, otp_req, otp_response, accepted, issued, verify_req,
                   users, tokens, otp_calls, medVars, authVars, waterVars>>

\* Time passes; redis drops the keys whose TTL has run out.
Tick ==
    /\ time < MaxTicks * TimeStep
    /\ time' = time + TimeStep
    /\ otp_store' = [c \in Contacts |->
                       IF otp_store[c].secret # None /\ otp_store[c].expires_at <= time'
                       THEN NoSecret ELSE otp_store[c]]
    /\ UNCHANGED <<otp_req, otp_response, accepted, issued, verify_req, users,
                   tokens, otp_calls, medVars, authVars, waterVars>>

\* ---------------------------------------------------------------- water
\* The bodies of POST /water/goal and POST /water/intake: goal_ml and intake_ml
\* are integers greater than 0 (schemas/water.py).
GoalAmounts == {2, 3}
IntakeAmounts == {1, 2}

\* A response of a water handler.
WaterResponse(op, u, result) ==
    [NoWaterResponse EXCEPT !.op = op, !.user_id = u, !.result = result]

\* A new request takes the first slot that runs no handler.
WaterFreeSlot(p) ==
    /\ water_req[p].pc = "idle"
    /\ p = "r2" => water_req["r1"].pc # "idle"

\* select(WaterIntake).where(user_id == user_id, date == date.today())
TodayIntakes(u) ==
    {x \in water_intakes : x.user_id = u /\ x.date = today}

\* select(WaterGoal).where(user_id == user_id).order_by(created_at.desc())
GoalsOf(u) ==
    {x \in water_goals : x.user_id = u}

\* Python's max(a, b).
max(a, b) ==
    IF a >= b THEN a ELSE b

\* POST /water/goal (lines 22-32): every call inserts a row.  Its primary key
\* is a fresh uuid4; no goal is ever deleted, so the number of rows names it.
SetWaterGoal ==
    /\ \E u \in Users \cup {NoUser}, goal_ml \in GoalAmounts :
        IF u = NoUser
        THEN /\ water_response' = WaterResponse("set_water_goal", u, "Unauthorized")
             /\ UNCHANGED <<water_goals, water_keys>>
        ELSE /\ Cardinality(water_goals) < MaxGoals
             /\ water_goals' = water_goals \cup
                    {[id |-> Cardinality(water_goals) + 1, user_id |-> u,
                      goal_ml |-> goal_ml, created_at |-> today]}
             /\ UNCHANGED water_keys
             /\ water_response' = [WaterResponse("set_water_goal", u, "OK")
                                      EXCEPT !.goal_ml = goal_ml]
    /\ UNCHANGED <<water_intakes, water_req, water_logged, medVars, otpVars, authVars>>

\* POST /water/intake up to its await of db.commit() (lines 38-47):
\* get_today_intake, whose scalar_one_or_none() raises when more than one row
\* matches, and the amount added to the loaded row in memory.
LogWaterIntake_Select(p) ==
    /\ WaterFreeSlot(p)
    /\ \E u \in Users \cup {NoUser}, intake_ml \in IntakeAmounts :
        IF u = NoUser
        THEN /\ water_response' = WaterResponse("log_water_intake", u, "Unauthorized")
             /\ UNCHANGED water_req
        ELSE IF Cardinality(TodayIntakes(u)) > 1
        THEN /\ water_response' = WaterResponse("log_water_intake", u,
                                                "MultipleResultsFound")
             /\ UNCHANGED water_req
        ELSE /\ water_logged[u] + intake_ml <= MaxLoggedMl
             /\ water_keys < MaxIntakeKeys
             /\ LET found == TodayIntakes(u)
                    intake == CHOOSE x \in found : TRUE
                IN  water_req' = [water_req EXCEPT ![p] =
                        [pc |-> "commit", user_id |-> u, intake_ml |-> intake_ml,
                         intake |-> IF found = {} THEN None ELSE intake.id,
                         loaded_ml |-> IF found = {} THEN None ELSE intake.intake_ml]]
             /\ UNCHANGED water_response
    /\ UNCHANGED <<water_goals, water_intakes, water_logged, water_keys,
                   medVars, otpVars, authVars>>

\* POST /water/intake from db.commit() on (lines 49-51): the INSERT of the new
\* row, or the UPDATE that sets intake_ml of the loaded row to the value
\* computed in memory.  An UPDATE that matches no row raises StaleDataError.
LogWaterIntake_Commit(p) ==
    /\ water_req[p].pc = "commit"
    /\ LET r == water_req[p] IN
       IF r.intake = None
       THEN /\ water_keys < MaxIntakeKeys
            /\ water_intakes' = water_intakes \cup
                   {[id |-> water_keys + 1, user_id |-> r.user_id,
                     intake_ml |-> r.intake_ml, date |-> today]}
            /\ water_keys' = water_keys + 1
            /\ water_logged' = [water_logged EXCEPT ![r.user_id] = @ + r.intake_ml]
            /\ water_response' = [WaterResponse("log_water_intake", r.user_id, "OK")
                                     EXCEPT !.total_intake_ml = r.intake_ml]
       ELSE IF \A x \in water_intakes : x.id # r.intake
       THEN /\ water_response' = WaterResponse("log_water_intake", r.user_id,
                                               "StaleDataError")
            /\ UNCHANGED <<water_intakes, water_keys, water_logged>>
       ELSE LET row == CHOOSE x \in water_intakes : x.id = r.intake
            IN  /\ water_intakes' = (water_intakes \ {row}) \cup
                       {[row EXCEPT !.intake_ml = r.loaded_ml + r.intake_ml]}
                /\ water_logged' = [water_logged EXCEPT ![r.user_id] = @ + r.intake_ml]
                /\ water_response' = [WaterResponse("log_water_intake", r.user_id, "OK")
                                         EXCEPT !.total_intake_ml =
                                                    r.loaded_ml + r.intake_ml]
                /\ UNCHANGED water_keys
    /\ water_req' = [water_req EXCEPT ![p] = WaterIdle]
    /\ UNCHANGED <<water_goals, medVars, otpVars, authVars>>

\* GET /water/status (lines 55-77): the goal query has no LIMIT and its
\* scalar_one_or_none() raises MultipleResultsFound when the user has more
\* than one goal; a user without a goal gets 404.
GetWaterStatus ==
    /\ \E u \in Users \cup {NoUser} :
        IF u = NoUser
        THEN water_response' = WaterResponse("get_water_status", u, "Unauthorized")
        ELSE IF Cardinality(GoalsOf(u)) > 1
        THEN water_response' = WaterResponse("get_water_status", u, "MultipleResultsFound")
        ELSE IF GoalsOf(u) = {}
        THEN water_response' = WaterResponse("get_water_status", u, "GoalNotSet")
        ELSE IF Cardinality(TodayIntakes(u)) > 1
        THEN water_response' = WaterResponse("get_water_status", u, "MultipleResultsFound")
        ELSE LET goal == CHOOSE x \in GoalsOf(u) : TRUE
                 total_intake == IF TodayIntakes(u) = {} THEN 0
                                 ELSE (CHOOSE x \in TodayIntakes(u) : TRUE).intake_ml
             IN  water_response' =
                    [op |-> "get_water_status", user_id |-> u, result |-> "OK",
                     goal_ml |-> goal.goal_ml, total_intake_ml |-> total_intake,
                     remaining_ml |-> max(goal.goal_ml - total_intake, 0)]
    /\ UNCHANGED <<water_goals, water_intakes, water_req, water_logged, water_keys,
                   medVars, otpVars, authVars>>

\* POST /water/reset (lines 81-91): today's rows of the user are deleted.
ResetWaterIntake ==
    /\ \E u \in Users \cup {NoUser} :
        IF u = NoUser
        THEN /\ water_response' = WaterResponse("reset_water_intake", u, "Unauthorized")
             /\ UNCHANGED <<water_intakes, water_logged>>
        ELSE /\ water_intakes' = water_intakes \ TodayIntakes(u)
             /\ water_logged' = [water_logged EXCEPT ![u] = 0]
             /\ water_response' = WaterResponse("reset_water_intake", u, "OK")
    /\ UNCHANGED <<water_goals, water_req, water_keys, medVars, otpVars, authVars>>

\* ------------------------------------------------------------ specification
Next ==
    \/ CreateMedicine
    \/ \E p \in Procs : MarkStatus_SelectMedicine(p)
    \/ \E p \in Procs : MarkStatus_SelectSchedule(p)
    \/ \E p \in Procs : MarkStatus_SelectIntake(p)
    \/ \E p \in Procs : MarkStatus_Commit(p)
    \/ \E p \in Procs : GetMedicines_LoadMedicines(p)
    \/ \E p \in Procs : GetMedicines_LoadIntakes(p)

Spec == Init /\ [][Next]_vars

NextCatalog ==
    \/ Next
    \/ UpdateMedicine
    \/ UpdateSchedule
    \/ DeleteMedicine

SpecCatalog == InitCatalog /\ [][NextCatalog]_vars

\* The same handlers under the requests of OneSchedule.
SpecRace == InitRace /\ [][Next]_vars

NextOTP ==
    \/ \E c \in Contacts : GenerateAndSend_Store(c)
    \/ \E c \in Contacts : FetchAndSend_Get(c)
    \/ Send
    \/ \E c \in Contacts, otp \in SubmittedCodes : Verify(c, otp)
    \/ VerifyOtp_IssueToken
    \/ \E op \in OtpOps, c \in Contacts : StoreFails(op, c)
    \/ Tick

SpecOTP == Init /\ [][NextOTP]_vars

\* Codes are requested and verify_otp runs in both request slots.
NextSignin ==
    \/ \E c \in Contacts : GenerateAndSend_Store(c)
    \/ Send
    \/ \E p \in Procs, c \in Contacts, otp \in SubmittedCodes : Signin_Verify(p, c, otp)
    \/ \E p \in Procs : GetOrCreate_Select(p)
    \/ \E p \in Procs : GetOrCreate_Create(p)

SpecSignin == Init /\ [][NextSignin]_vars

NextWater ==
    \/ SetWaterGoal
    \/ \E p \in Procs : LogWaterIntake_Select(p)
    \/ \E p \in Procs : LogWaterIntake_Commit(p)
    \/ GetWaterStatus
    \/ ResetWaterIntake

SpecWater == Init /\ [][NextWater]_vars

\* =================================================================== claims
\* The rows of daily_medicine_intakes for one (schedule, date) pair.
RowsOf(table, sid, d) ==
    {x \in table : x.schedule_id = sid /\ x.intake_date = d}

\* Slot p takes its step from position pc: it leaves pc in this step.
Leaves(p, op, pc) ==
    req[p].op = op /\ req[p].pc = pc /\ req'[p].pc # pc

\* The results with which mark_medicine_status refuses a request before its upsert.
ValidationFailures ==
    {"Unauthorized", "MedicineNotFound", "ScheduleIdRequired", "ScheduleNotFound",
     "BeforeStart", "AfterEnd"}

\* C1: in every reachable state the table holds at most one row for each
\* (schedule id, intake date) pair.
C1_OneRowPerScheduleDate ==
    \A a, b \in intakes :
        (a.schedule_id = b.schedule_id /\ a.intake_date = b.intake_date) => a = b

\* A second INSERT for a pair that has a row was attempted and refused.
C1_Witness ==
    /\ response.result = "IntegrityError"
    /\ intakes # {}

\* C2: two concurrent calls for a (schedule, date) pair that has no row both
\* complete successfully; neither ends in a uniqueness-constraint failure.
C2_NoUniquenessFailure ==
    response.result # "IntegrityError"

\* C3: a second call in sequence for the same (schedule, date) with the same
\* status leaves exactly one row for the pair, and the row's status_changed_at
\* is later than before the call.
C3_RepeatAdvancesTimestamp ==
    [][\A p \in Procs :
        (Leaves(p, "mark_medicine_status", "commit") /\ response'.branch = "repeat")
        => LET old == CHOOSE x \in intakes : x.id = req[p].intake
               new == RowsOf(intakes', req[p].schedule_id, req[p].intake_date)
           IN  /\ Cardinality(new) = 1
               /\ \A x \in new : /\ x.status = old.status
                                 /\ x.status_changed_at > old.status_changed_at]_vars

C3_Witness ==
    response.branch = "repeat"

\* C4: after a successful call on a pair that already has a row, the stored row
\* has the status and the note of that call (no note clears the note), its
\* status_changed_at is the time of the call, and it is the only row of the pair.
C4_UpdateOverwrites ==
    [][\A p \in Procs :
        (Leaves(p, "mark_medicine_status", "commit")
            /\ response'.branch \in {"update", "repeat"})
        => \E x \in intakes' :
            /\ RowsOf(intakes', req[p].schedule_id, req[p].intake_date) = {x}
            /\ x.id = req[p].intake
            /\ x.status = response'.status
            /\ x.note = response'.note
            /\ x.status_changed_at = req[p].now]_vars

\* C5: a call whose medicine and schedule were found fails with BeforeStart or
\* AfterEnd exactly when its intake date is before the start date, or the
\* medicine has an end date and the intake date is after it; otherwise it goes
\* on to the upsert.
C5_OutOfWindow(start, end, d) ==
    (start # None /\ d < start) \/ (end # None /\ d > end)

C5_WindowEnforced ==
    [][\A p \in Procs :
        (Leaves(p, "mark_medicine_status", "select_schedule")
            /\ ~(req'[p].pc = "idle" /\ response'.result = "ScheduleNotFound"))
        => IF req'[p].pc = "select_intake"
           THEN ~C5_OutOfWindow(req[p].start_date, req[p].end_date, req'[p].intake_date)
           ELSE /\ response'.result \in {"BeforeStart", "AfterEnd"}
                /\ C5_OutOfWindow(req[p].start_date, req[p].end_date,
                                  response'.intake_date)]_vars

\* A date outside the window was refused, and a date equal to the start date
\* or to the end date is on its way to the upsert.
C5_Witness ==
    /\ response.result \in {"BeforeStart", "AfterEnd"}
    /\ \E p \in Procs :
        /\ req[p].pc = "select_intake"
        /\ req[p].intake_date \in {req[p].start_date, req[p].end_date}

\* C6: a call fails with NotFound whenever the medicine is not owned by the
\* calling user, or the schedule is not owned by the calling user, or the
\* schedule does not belong to the named medicine; every stored row carries the
\* user id that owns its schedule.
C6_OwnsMedicine(u, m) ==
    \E x \in medicines : x.id = m /\ x.user_id = u

C6_OwnsSchedule(u, sid) ==
    \E x \in schedules : x.id = sid /\ x.user_id = u

C6_ScheduleOf(m, sid) ==
    \E x \in schedules : x.id = sid /\ x.medicine_id = m

C7_FailuresWriteNothing ==
    [][/\ (/\ response' # response
           /\ response'.op = "mark_medicine_status"
           /\ response'.result \in ValidationFailures)
          => intakes' = intakes
       /\ \A p \in Procs :
            (/\ req'[p].op = "mark_medicine_status"
             /\ req'[p].pc # "idle"
             /\ req'[p].pc # req[p].pc)
            => intakes' = intakes]_vars

\* A call was refused for its date while the table holds rows.
C7_Witness ==
    /\ response.op = "mark_medicine_status"
    /\ response.result \in {"BeforeStart", "AfterEnd"}
    /\ intakes # {}

\* C8: get_medicines reports, for every schedule of every medicine of the user,
\* the status of the row for (that schedule, today) when there is one and
\* PENDING when there is none.
C8_SchedulesOf(u) ==
    {s.id : s \in {x \in schedules : C6_OwnsMedicine(u, x.medicine_id)}}

C8_TodayStatus(sid) ==
    IF RowsOf(intakes, sid, today) = {} THEN PENDING
    ELSE (CHOOSE x \in RowsOf(intakes, sid, today) : TRUE).status

C8_ReportsTodayStatus ==
    [][/\ \A p \in Procs :
            (req[p].pc = "idle" /\ req'[p].op = "get_medicines")
            => req'[p].loaded = C8_SchedulesOf(req'[p].user_id)
       /\ \A p \in Procs :
            Leaves(p, "get_medicines", "load_intakes")
            => response'.report = {[schedule_id |-> sid, status |-> C8_TodayStatus(sid)] :
                                   sid \in req[p].loaded}
       /\ (/\ response' # response
           /\ response'.op = "get_medicines"
           /\ \A p \in Procs : req'[p] = req[p])
          => C8_SchedulesOf(response'.user_id) = {} /\ response'.report = {}]_vars

\* One report holds the stored status of a schedule with a row for today and
\* PENDING for a schedule without one, while a row of another date is stored.
C8_Witness ==
    /\ response.op = "get_medicines"
    /\ \E a, b \in response.report :
        /\ a.status = TAKEN
        /\ RowsOf(intakes, a.schedule_id, today) # {}
        /\ b.status = PENDING
        /\ RowsOf(intakes, b.schedule_id, today) = {}
        /\ \E x \in intakes : x.schedule_id = b.schedule_id

\* C9: get_medicines never creates, updates or deletes a row: each of its steps
\* leaves the three tables as they are.
C9_ReadOnly ==
    [][(\/ \E p \in Procs : req'[p] # req[p] /\ req'[p].op = "get_medicines"
        \/ \E p \in Procs : Leaves(p, "get_medicines", "load_intakes")
        \/ response' # response /\ response'.op = "get_medicines")
       => /\ intakes' = intakes
          /\ medicines' = medicines
          /\ schedules' = schedules]_vars

\* PENDING was reported for a schedule that has no row at all after the call.
C9_Witness ==
    /\ response.op = "get_medicines"
    /\ \E a \in response.report :
        /\ a.status = PENDING
        /\ \A x \in intakes : x.schedule_id # a.schedule_id

\* C10: a code is accepted once: after verify has returned True for a contact
\* and a code, a later verify of the same contact and code, with no new secret
\* stored in between, returns False.  accepted[c] lists the codes verify has
\* accepted for c since its secret was stored, so no code occurs in it twice.
C10_AcceptedOnce ==
    \A c \in Contacts :
        \A i, j \in 1..Len(accepted[c]) :
            accepted[c][i] = accepted[c][j] => i = j

\* The step is a call of verify: the service takes a call and no generate_and_send
\* or fetch_and_send starts.
VerifyStep(c) ==
    /\ otp_calls' = otp_calls + 1
    /\ otp_req' = otp_req
    /\ otp_response'.contact = c

\* C11: verify returns False, and raises nothing, for every submitted code
\* whenever the store holds no live secret for the contact, be it never
\* requested or expired.
C11_FailsClosed ==
    [][\A c \in Contacts :
         (VerifyStep(c) /\ redis_get(c) = None)
         => otp_response'.op = "verify" /\ otp_response'.result = FALSE]_vars

\* A derivable code was refused for a contact that never requested one.
C11_Witness ==
    /\ otp_response.op = "verify"
    /\ otp_response.result = FALSE
    /\ otp_response.otp # 999
    /\ issued[otp_response.contact] = NotIssued
    /\ otp_store[otp_response.contact] = NoSecret

\* The TTL of the secret generated last for c has not run out.
WithinTTL(c) ==
    issued[c].secret # None /\ time < issued[c].at + OTP_EXPIRES_SECONDS

\* C12: the code generate_and_send dispatched for a contact is accepted by
\* verify at every time before the TTL of its secret runs out, also after the
\* clock has crossed a boundary of the time bucket, when no other secret was
\* generated for the contact in between.
C12_AcceptedUntilExpiry ==
    [][\A c \in Contacts :
         (/\ VerifyStep(c)
          /\ issued[c].op = "generate_and_send"
          /\ issued[c].dispatch = "sent"
          /\ WithinTTL(c)
          /\ otp_response'.otp = issued[c].otp)
         => otp_response'.result = TRUE]_vars

\* The TTL of the secret generated last for c has run out.
Expired(c) ==
    issued[c].secret # None /\ time >= issued[c].at + OTP_EXPIRES_SECONDS

\* C13: once the TTL of a contact's secret has run out and no call has
\* generated a new one, the store holds no secret for the contact and verify
\* returns False for every code, the dispatched one included.
C13_ExpiredRejectsAll ==
    /\ [](\A c \in Contacts : Expired(c) => otp_store[c] = NoSecret)
    /\ [][\A c \in Contacts :
            (VerifyStep(c) /\ Expired(c)) => otp_response'.result = FALSE]_vars

\* The code that was delivered was refused after the TTL of its secret.
C13_Witness ==
    /\ otp_response.op = "verify"
    /\ otp_response.result = FALSE
    /\ Expired(otp_response.contact)
    /\ issued[otp_response.contact].dispatch = "sent"
    /\ otp_response.otp = issued[otp_response.contact].otp

\* The step is the start of generate_and_send for c.
GenerateStep(c) ==
    /\ otp_req.pc = "idle"
    /\ otp_req'.op = "generate_and_send"
    /\ otp_req'.contact = c

\* C14: each contact has at most one live secret, that of its latest
\* generation; generate_and_send leaves the newly generated secret in the
\* store, superseding the one stored before, and leaves the secrets of the
\* other contacts as they are.
C14_NewSecretSupersedes ==
    /\ [](\A c \in Contacts :
            \/ otp_store[c] = NoSecret
            \/ otp_store[c].secret = issued[c].secret /\ WithinTTL(c))
    /\ [][\A c \in Contacts :
            GenerateStep(c)
            => /\ otp_store'[c].secret # otp_store[c].secret
               /\ otp_store'[c].secret = issued'[c].secret
               /\ otp_req'.otp = TOTP(otp_store'[c].secret, time)
               /\ otp_store'[c].expires_at = time + OTP_EXPIRES_SECONDS
               /\ \A d \in Contacts \ {c} : otp_store'[d] = otp_store[d]]_vars

\* A second generate_and_send has replaced a live secret while another contact
\* holds one.
C14_Witness ==
    /\ otp_req.op = "generate_and_send"
    /\ issued[otp_req.contact].superseded # None
    /\ time < OTP_EXPIRES_SECONDS
    /\ \E d \in Contacts \ {otp_req.contact} : otp_store[d] # NoSecret

\* The codes that derive from a secret, one for each time bucket.
CodesOf(secret) ==
    {TOTP(secret, k * TimeStep) : k \in 0..MaxTicks}

\* C15: after a second generate_and_send for a contact, a verify that reads the
\* store once the new secret is in it refuses every code derived from the
\* secret that was replaced, whenever that verify was started.
C15_OldCodeRefused ==
    [][\A c \in Contacts :
         (/\ VerifyStep(c)
          /\ issued[c].op = "generate_and_send"
          /\ issued[c].superseded # None
          /\ otp_response'.otp \in CodesOf(issued[c].superseded))
         => otp_response'.result = FALSE]_vars

\* The code the replaced secret yields for the current bucket was refused.
C15_Witness ==
    /\ otp_response.op = "verify"
    /\ otp_response.result = FALSE
    /\ issued[otp_response.contact].op = "generate_and_send"
    /\ issued[otp_response.contact].superseded # None
    /\ otp_response.otp = TOTP(issued[otp_response.contact].superseded, time)
    /\ otp_store[otp_response.contact] # NoSecret

\* The step is the start of fetch_and_send for c.
ResendStep(c) ==
    /\ otp_req.pc = "idle"
    /\ otp_req'.op = "fetch_and_send"
    /\ otp_req'.contact = c

\* C16: fetch_and_send, called while the store holds a live secret for the
\* contact, leaves the secret and its expiry as they are and hands to the
\* channel the code that the preceding generate_and_send dispatched, at any
\* time before expiry.
C16_ResendSameCode ==
    [][\A c \in Contacts :
         (/\ ResendStep(c)
          /\ redis_get(c) # None
          /\ issued[c].op = "generate_and_send")
         => /\ otp_store' = otp_store
            /\ otp_req'.otp = issued[c].otp]_vars

\* C17: after generate_and_send and a fetch_and_send before expiry, both the
\* code the resend delivered and the code the request delivered are accepted
\* by verify until the secret expires.
C17_BothCodesAccepted ==
    [][\A c \in Contacts :
         (/\ VerifyStep(c)
          /\ issued[c].op = "generate_and_send"
          /\ issued[c].dispatch = "sent"
          /\ issued[c].resent # None
          /\ WithinTTL(c)
          /\ otp_response'.otp \in {issued[c].otp, issued[c].resent})
         => otp_response'.result = TRUE]_vars

DispatchFailed(c) ==
    issued[c].op = "generate_and_send" /\ issued[c].dispatch = "failed"

\* C19: when the dispatch of generate_and_send fails, the secret the call
\* stored stays in the store until its TTL runs out, and a fetch_and_send
\* within that time derives its code from that secret and stores no other.
C19_SecretSurvivesFailedDispatch ==
    /\ [](\A c \in Contacts :
            (DispatchFailed(c) /\ WithinTTL(c))
            => otp_store[c] = [secret |-> issued[c].secret,
                               expires_at |-> issued[c].at + OTP_EXPIRES_SECONDS])
    /\ [][\A c \in Contacts :
            (ResendStep(c) /\ DispatchFailed(c) /\ WithinTTL(c))
            => /\ otp_store' = otp_store
               /\ otp_req'.otp = TOTP(issued[c].secret, time)]_vars

\* A resend was delivered from the secret of a request whose dispatch failed.
C19_Witness ==
    /\ otp_response.op = "fetch_and_send"
    /\ otp_response.result = TRUE
    /\ DispatchFailed(otp_response.contact)
    /\ otp_store[otp_response.contact].secret = issued[otp_response.contact].secret
    /\ issued[otp_response.contact].resent = otp_response.otp

\* C20: verify_otp fetches or creates a user and issues an access token only
\* in a request whose verify returned True; when verify returns False the
\* request fails with HTTP 400, no user is created and no token is issued.
C20_TokenOnlyAfterVerify ==
    [][/\ (users' # users \/ tokens' # tokens \/
           (verify_req'.status = "200" /\ verify_req' # verify_req))
          => /\ verify_req.pc = "get_or_create"
             /\ verify_req.valid = TRUE
             /\ users' = users \cup {verify_req.contact}
             /\ tokens' = tokens \cup {verify_req.contact}
       /\ \A c \in Contacts :
            VerifyStep(c)
            => /\ users' = users
               /\ tokens' = tokens
               /\ IF otp_response'.result = TRUE
                  THEN /\ verify_req'.pc = "get_or_create"
                       /\ verify_req'.contact = c
                       /\ verify_req'.valid = TRUE
                  ELSE /\ verify_req'.pc = "idle"
                       /\ verify_req'.status = "400"]_vars

\* A token was issued to the contact whose code verify accepted, and a user
\* row exists for it.
C20_Witness ==
    /\ verify_req.status = "200"
    /\ otp_response.op = "verify"
    /\ otp_response.result = TRUE
    /\ otp_response.contact \in users
    /\ otp_response.contact \in tokens

\* C21: a failure of the TTL store during generate_and_send, fetch_and_send or
\* verify reaches the caller as the error StoreUnavailable; it is never
\* turned into an ordinary boolean result.
C21_StoreFailurePropagates ==
    otp_response.outcome = "store_unavailable"
        => otp_response.error = "StoreUnavailable"

\* C24: no stored row of daily_medicine_intakes has status PENDING;
\* mark_medicine_status stores only TAKEN, MISSED or DELAYED.
C24_NoStoredPending ==
    \A x \in intakes : x.status # PENDING

\* C22: a request that carries no user id is answered with Unauthorized by the
\* first step of its handler, which is the step that leaves every slot as it
\* was, and no table changes in that step.
C22_UnauthorizedWithoutUser ==
    [][(req' = req /\ response' # response /\ response'.user_id = NoUser)
        => /\ response'.result = "Unauthorized"
           /\ UNCHANGED <<medicines, schedules, intakes>>]_vars

\* C26: when a call commits its update of a row that another call for the same
\* (schedule, date) pair has changed since this call loaded it, the stored
\* (status, note) pair is the pair this call submitted, never a field of the
\* other call.
C26_LastCommitWins ==
    [][\A p \in Procs :
        (/\ Leaves(p, "mark_medicine_status", "commit")
         /\ response'.result = "OK"
         /\ req[p].intake # None
         /\ \E x \in intakes : /\ x.id = req[p].intake
                                /\ <<x.status, x.note>> #
                                       <<req[p].intake_status, req[p].intake_note>>)
        => \E x \in intakes' : /\ x.id = req[p].intake
                                /\ x.status = response'.status
                                /\ x.note = response'.note]_vars

\* C23: an update of a medicine that does not exist or is not owned by the
\* caller fails with NotFound and changes no medicine, schedule or intake row.
C23_UpdateOfUnownedNotFound ==
    [][(/\ response' # response
        /\ response'.op = "update_medicine"
        /\ response'.user_id # NoUser
        /\ ~C6_OwnsMedicine(response'.user_id, response'.medicine_id))
        => /\ response'.result = "MedicineNotFound"
           /\ UNCHANGED <<medicines, schedules, intakes>>]_vars

\* C25: the scheduled_time of a row is the time_of_day its handler read from
\* the schedule when the row was created, and no step changes it afterwards:
\* neither a later call for the same (schedule, date) nor an update of the
\* schedule's time_of_day.
C25_ScheduledTimeFixed ==
    [][/\ \A x \in intakes, y \in intakes' :
            x.id = y.id => y.scheduled_time = x.scheduled_time
       /\ \A p \in Procs :
            Leaves(p, "mark_medicine_status", "commit")
            => \A y \in intakes' :
                 (\A x \in intakes : x.id # y.id)
                 => y.scheduled_time = req[p].time_of_day]_vars

\* A call has updated a row whose schedule has since got another time_of_day.
C25_Witness ==
    /\ response.op = "mark_medicine_status"
    /\ response.branch \in {"update", "repeat"}
    /\ \E x \in intakes, y \in schedules :
        /\ y.id = x.schedule_id
        /\ x.status_changed_at # x.id
        /\ y.time_of_day # x.scheduled_time

\* C27: a row of daily_medicine_intakes disappears only in a step that removes
\* its schedule.  An update of a medicine with a non-empty schedules list
\* removes every schedule the medicine had and every row recorded against
\* them, the medicine's schedules afterwards have ids no schedule had before
\* and no row, so each reports PENDING; an update with an absent or empty
\* list keeps schedules and rows.
C27_RemovedRows ==
    {x \in intakes : \A y \in intakes' : y.id # x.id}

C27_RemovedOnlyByCascade ==
    [][/\ \A x \in C27_RemovedRows : \A y \in schedules' : y.id # x.schedule_id
       /\ (response' # response /\ response'.op = "update_medicine"
             /\ response'.branch = "replace")
          => LET m == response'.medicine_id
                 old == SchedulesOfMedicine(m)
                 new == {y \in schedules' : y.medicine_id = m}
             IN  /\ new # {}
                 /\ \A y \in new : y.id \notin {x.id : x \in schedules}
                 /\ \A x \in intakes' : x.schedule_id \notin old
                 /\ \A y \in new : AttachedStatus(intakes', y.id) = PENDING
       /\ (response' # response /\ response'.op = "update_medicine"
             /\ response'.branch = "keep")
          => UNCHANGED <<schedules, intakes>>]_vars

\* A medicine has got new schedules, and the row a handler in flight had loaded
\* for one of its old schedules is gone.
C27_Witness ==
    /\ response.op = "update_medicine"
    /\ response.branch = "replace"
    /\ \E y \in schedules : y.medicine_id = response.medicine_id
    /\ \E p \in Procs :
        /\ req[p].pc = "commit"
        /\ req[p].intake # None
        /\ \A x \in intakes : x.id # req[p].intake

\* C28: whatever the interleaving of verify_otp requests whose code was
\* accepted, every token names a user that exists, there is one user per
\* contact (the table holds at most one row per contact by construction), and
\* no such request fails.
C28_OneUserNoFailure ==
    /\ tokens \subseteq users
    /\ \A p \in Procs : signin[p].status # "500"

\* C29: once a user has set one or more goals, get_water_status succeeds and
\* reports the goal set last, with remaining_ml = max(goal_ml -
\* total_intake_ml, 0), which is never negative.
C29_LatestGoal(u) ==
    CHOOSE x \in GoalsOf(u) : \A y \in GoalsOf(u) : y.id <= x.id

C29_StatusReportsLatestGoal ==
    [][(/\ water_response' # water_response
        /\ water_response'.op = "get_water_status"
        /\ water_response'.user_id # NoUser
        /\ GoalsOf(water_response'.user_id) # {})
        => /\ water_response'.result = "OK"
           /\ water_response'.goal_ml = C29_LatestGoal(water_response'.user_id).goal_ml
           /\ water_response'.remaining_ml >= 0
           /\ water_response'.remaining_ml =
                 max(water_response'.goal_ml - water_response'.total_intake_ml, 0)]_vars

\* C30: a user has at most one row of water_intake for today, and its
\* intake_ml is the sum of the amounts logged since the last reset, also when
\* two log_water_intake calls of the user overlap.
C30_OneRowSumOfLogged ==
    \A u \in Users :
        /\ Cardinality(TodayIntakes(u)) <= 1
        /\ \A x \in TodayIntakes(u) : x.intake_ml = water_logged[u]
        /\ TodayIntakes(u) = {} => water_logged[u] = 0

====
